---- MODULE Spec2Model ----
(***************************************************************************)
(* Model of nodes/route_manager.py: the GoalGenerator (random goal         *)
(* sampler over a static occupancy grid) and the RouteManager (the goal    *)
(* dispatch loop talking to the move_base action server).                  *)
(***************************************************************************)
EXTENDS Integers, Sequences, FiniteSets, TLC

VARIABLES
    route_mode,        \* rospy.get_param('~mode')
    poses,             \* rospy.get_param('~poses', [])
    grid,              \* GoalGenerator.meta_data + occupancy_data (NoGrid when no generator)
    attrs_set,         \* TRUE iff __init__ reached the assignments of goals / bad_goal_counter
    bad_goal_counter,  \* RouteManager.bad_goal_counter
    goals_pos,         \* position of the itertools.cycle iterator (inorder mode)
    current_goal,      \* current_goal of route_forever (NoGoal before the first one)
    pc,                \* position of route_forever
    exc,               \* exception that left route_forever ("none" if none)
    exit_reason,       \* why route_forever returned ("none" while running)
    iteration,         \* get_next: the loop variable of the retry loop
    rejected,          \* get_next: rejected draws of the call in progress (saturating)
    draw,              \* get_next: the last cell drawn
    sample,            \* get_next: Pending while the call runs, else its return value
    noise,             \* last stand-alone check_noise call: its arguments and result
    shutdown,          \* rospy.is_shutdown()
    cur,               \* service-side status of the goal the action client tracks
    stale,             \* goals still outstanding at the service that the client no longer tracks
    plan_msg,          \* message received by the wait_for_message subscriber
    wait_state,        \* how the dispatcher's wait on the last submitted goal ended
    acquired,          \* number of goals acquired (converted to a MoveBaseGoal) so far
    submitted          \* number of send_goal calls so far

vars == <<route_mode, poses, grid, attrs_set, bad_goal_counter, goals_pos,
          current_goal, pc, exc, exit_reason, iteration, rejected, draw, sample,
          noise, shutdown, cur, stale, plan_msg, wait_state, acquired, submitted>>

dispatcher_vars == <<attrs_set, bad_goal_counter, goals_pos, current_goal, pc, exc,
                     exit_reason, wait_state, acquired, submitted>>
config_vars == <<route_mode, poses, grid>>
service_vars == <<shutdown, cur, stale, plan_msg>>
sampler_vars == <<iteration, rejected, draw, sample>>

----------------------------------------------------------------------------
(* Bounds of the model *)

MaxPoses == 2          \* longest preset pose list
MaxAcquire == 12       \* goals acquired in one run
MaxStale == 1          \* untracked goals outstanding at the service at a time
MaxCells == 4          \* most cells of a grid of the sampler specification
MaxFreeSide == 5       \* longest side of an all-free grid of the sampler specification

(* Program constants *)

timeout_iter == 100    \* get_next: retry budget
MaxBadGoals == 10      \* route_forever: bad_goal_counter > 10 stops the loop
MinDelta == 2          \* check_noise: smallest half extent of the window
DeltaDivisor == 50     \* check_noise: width // 50, height // 50

----------------------------------------------------------------------------
(* Values *)

Max(a, b) == IF a >= b THEN a ELSE b
Min(a, b) == IF a <= b THEN a ELSE b

\* Python's None, as a pose
None == [kind |-> "None"]
\* get_next has not returned yet
Pending == [kind |-> "Pending"]
\* get_next has not been called
NotCalled == [kind |-> "NotCalled"]
\* check_noise has not been called on its own
NoNoise == [x |-> -1, y |-> -1, clean |-> TRUE]
NoGoal == [kind |-> "NoGoal"]
NoDraw == <<-1, -1>>

\* Occupancy values of a trinary map: free, occupied, unknown
CellValues == {0, 100, -1}

\* The modes route_modes has a key for
RouteModes == {"inorder", "random", "dynamic"}
\* The values of ~mode the model runs with
ModeParams == RouteModes \cup {"bogus"}

\* Entries of the ~poses parameter
PresetPose(i) == [kind |-> "pose", position |-> <<i, 0, 0>>, orientation |-> <<0, 0, 0, 1>>]
PresetPoses == {PresetPose(i) : i \in 1..2}
PoseLists == UNION {[1..n -> PresetPoses] : n \in 0..MaxPoses}

\* Origin and resolution of map_metadata (yaw 0: cos = 1, sin = 0 exactly)
UnitMeta == [x0 |-> 0, y0 |-> 0, resolution |-> 1, cos_yaw |-> 1, sin_yaw |-> 0]
Metas == {UnitMeta,
          [x0 |-> -2, y0 |-> 3, resolution |-> 2, cos_yaw |-> 1, sin_yaw |-> 0]}

MakeGrid(w, h, d, m) ==
    [width |-> w, height |-> h, data |-> d, x0 |-> m.x0, y0 |-> m.y0,
     resolution |-> m.resolution, cos_yaw |-> m.cos_yaw, sin_yaw |-> m.sin_yaw]

\* Every trinary grid of at least one and at most n cells
Grids(n, metas) ==
    UNION {{MakeGrid(s[1], s[2], d, m) : d \in [1..(s[1] * s[2]) -> CellValues], m \in metas}
           : s \in {t \in (1..n) \X (1..n) : t[1] * t[2] <= n}}

\* Origin (0, 0) with a resolution other than 1
ScaledMeta == [x0 |-> 0, y0 |-> 0, resolution |-> 3, cos_yaw |-> 1, sin_yaw |-> 0]

\* Every grid of sides up to n whose cells are all free
FreeGrids(n, metas) ==
    {MakeGrid(s[1], s[2], [i \in 1..(s[1] * s[2]) |-> 0], m) : s \in (1..n) \X (1..n), m \in metas}

\* The maps of the dynamic-mode runs: the one-cell maps. A run depends on the
\* map only through what get_next does: on the free map it returns a pose at
\* the first draw, on the occupied and the unknown map every draw is rejected.
RunGrids == Grids(1, {UnitMeta})

\* No GoalGenerator was constructed
NoGrid == MakeGrid(0, 0, <<>>, UnitMeta)

----------------------------------------------------------------------------
(* GoalGenerator *)

\* A linearisation that strides by the height of the grid
ravel_index_by_height(g, x, y) == y * g.height + x

ravel_index(g, x, y) == y * g.width + x

\* occupancy_data.data[i]: Python indexes from 0 and counts a negative index
\* from the end of the sequence
data_at(g, i) == IF i >= 0 THEN g.data[i + 1] ELSE g.data[Len(g.data) + i + 1]

\* A transform that mixes up the two grid coordinates
grid_to_world_2d_swapped(g, x, y) ==
    <<g.x0 + (g.cos_yaw * (g.resolution * y) - g.sin_yaw * (g.resolution * x)),
      g.y0 + (g.sin_yaw * (g.resolution * y) + g.cos_yaw * (g.resolution * x))>>

grid_to_world_2d(g, x, y) ==
    <<g.x0 + (g.cos_yaw * (g.resolution * x) - g.sin_yaw * (g.resolution * y)),
      g.y0 + (g.sin_yaw * (g.resolution * x) + g.cos_yaw * (g.resolution * y))>>

\* _create_pos with euler orientation (0, 0, 0): quaternion (0, 0, 0, 1)
create_pos(x_world, y_world, z_world) ==
    [kind |-> "pose", position |-> <<x_world, y_world, z_world>>, orientation |-> <<0, 0, 0, 1>>]

\* range(a, b) of Python
PyRange(a, b) == a..(b - 1)

delta_x(g) == Max(MinDelta, g.width \div DeltaDivisor)
delta_y(g) == Max(MinDelta, g.height \div DeltaDivisor)
\* A left bound that is not clamped at the border
l_bound_unclamped(g, x) == x - delta_x(g)
l_bound(g, x) == Max(0, x - delta_x(g))
r_bound(g, x) == Min(g.width - 1, x + delta_x(g))
t_bound(g, y) == Max(0, y - delta_y(g))
b_bound(g, y) == Min(g.height - 1, y + delta_y(g))

\* The cells check_noise reads when no cell makes it return early
scanned_cells(g, x, y) ==
    {<<cx, cy>> : cx \in PyRange(l_bound(g, x), r_bound(g, x)),
                  cy \in PyRange(t_bound(g, y), b_bound(g, y))}

check_noise(g, x, y) ==
    \A c \in scanned_cells(g, x, y) : data_at(g, ravel_index(g, c[1], c[2])) = 0

\* The acceptance test of get_next for the drawn cell
valid_goal(g, x, y) ==
    data_at(g, ravel_index(g, x, y)) = 0 /\ check_noise(g, x, y)

\* The loop variable after a rejected draw: the loop body never assigns it
next_iteration(i) == i

\* One pass through the while loop of get_next (or the fall through to return None)
GetNextStep ==
    /\ sample = Pending
    /\ IF iteration < timeout_iter
       THEN \E x \in 0..(grid.width - 1), y \in 0..(grid.height - 1) :
              /\ draw' = <<x, y>>
              /\ IF valid_goal(grid, x, y)
                 THEN /\ sample' = create_pos(grid_to_world_2d(grid, x, y)[1],
                                              grid_to_world_2d(grid, x, y)[2], 0)
                      /\ UNCHANGED <<iteration, rejected>>
                 ELSE /\ iteration' = next_iteration(iteration)
                      /\ rejected' = Min(rejected + 1, timeout_iter + 1)
                      /\ sample' = Pending
       ELSE /\ sample' = None
            /\ UNCHANGED <<iteration, rejected, draw>>

----------------------------------------------------------------------------
(* RouteManager *)

\* A cycle iterator that does not advance
cycle_next_stuck(pos, n) == pos

\* itertools.cycle over n elements: the position after yielding the one at pos
cycle_next(pos, n) == (pos + 1) % n

\* next(self.goals) in inorder mode: cycle([]) raises StopIteration
next_inorder(ps, pos) ==
    IF Len(ps) = 0 THEN [raises |-> "StopIteration", pose |-> None]
    ELSE [raises |-> "none", pose |-> ps[pos + 1]]

\* A random source whose index can run one past the end of the list
next_random_past_end(ps) ==
    {[raises |-> "none", pose |-> ps[i]] : i \in 1..Len(ps)}
        \cup {[raises |-> "IndexError", pose |-> None]}

\* next(self.goals) in random mode: random.choice(goals) for each index i
\* of a non-empty list; random.choice([]) raises IndexError
next_random(ps) ==
    IF Len(ps) = 0 THEN {[raises |-> "IndexError", pose |-> None]}
    ELSE {[raises |-> "none", pose |-> ps[i]] : i \in 1..Len(ps)}

to_move_goal(pose) ==
    IF pose = None THEN [raises |-> "ValueError", goal |-> NoGoal]
    ELSE [raises |-> "none",
          goal |-> [kind |-> "goal", frame_id |-> "map", pose |-> pose]]

\* except ValueError of route_forever
caught_as_no_goal(e) == e = "ValueError"

\* rospy.exceptions: ROSInterruptException is a subclass of ROSException
caught_as_no_plan(e) == e \in {"ROSException", "ROSInterruptException"}

\* while not rospy.is_shutdown()
loop_condition == ~shutdown

\* A budget check that never trips
budget_exceeded_never(c) == FALSE

\* A budget check that is off by one
budget_exceeded_late(c) == c > MaxBadGoals + 1

\* if self.bad_goal_counter > 10
budget_exceeded(c) == c > MaxBadGoals

\* A handler that does not count the bad goal
count_bad_goal_dropped(c) == c

\* self.bad_goal_counter += 1
count_bad_goal(c) == c + 1

\* A result wait that returns although the goal is not done
result_wait_over_early == TRUE

\* client.wait_for_result() without a timeout returns when the tracked goal is
\* done or rospy is shut down
result_wait_over == cur \in {"succeeded", "aborted"} \/ shutdown

\* __init__ returns before assigning goals and bad_goal_counter on an unknown mode
init_completes(m) == m \in RouteModes

\* The state main leaves after RouteManager(): ~poses is read in the known
\* modes only, and the dynamic mode's lambda ignores it
Init ==
    /\ route_mode \in ModeParams
    /\ poses \in (IF route_mode \in {"inorder", "random"} THEN PoseLists ELSE {<<>>})
    /\ grid \in (IF route_mode = "dynamic" THEN RunGrids ELSE {NoGrid})
    /\ attrs_set = init_completes(route_mode)
    /\ bad_goal_counter = 0
    /\ goals_pos = 0
    /\ current_goal = NoGoal
    /\ pc = "loop_head"
    /\ exc = "none"
    /\ exit_reason = "none"
    /\ iteration = 0
    /\ rejected = 0
    /\ draw = NoDraw
    /\ sample = NotCalled
    /\ noise = NoNoise
    /\ shutdown = FALSE
    /\ cur = "none"
    /\ stale = 0
    /\ plan_msg = "none"
    /\ wait_state = "none"
    /\ acquired = 0
    /\ submitted = 0

\* An exception leaves route_forever (main handles ROSInterruptException only)
Raise(e) ==
    /\ pc' = "crashed"
    /\ exc' = e
    /\ UNCHANGED <<attrs_set, bad_goal_counter, goals_pos, current_goal, exit_reason,
                   wait_state, acquired, submitted>>

Return(why) ==
    /\ pc' = "done"
    /\ exit_reason' = why
    /\ UNCHANGED <<attrs_set, bad_goal_counter, goals_pos, current_goal, exc,
                   wait_state, acquired, submitted>>

\* The while condition and the budget check at the top of an iteration
LoopHead ==
    /\ pc = "loop_head"
    /\ IF ~loop_condition THEN Return("shutdown")
       ELSE IF ~attrs_set THEN Raise("AttributeError")
       ELSE IF budget_exceeded(bad_goal_counter) THEN Return("budget")
       ELSE /\ pc' = "acquire"
            /\ UNCHANGED <<attrs_set, bad_goal_counter, goals_pos, current_goal, exc,
                           exit_reason, wait_state, acquired, submitted>>
    /\ UNCHANGED <<config_vars, service_vars, sampler_vars, noise>>

\* current_goal = self.to_move_goal(<pose>) and what the try block does with it
Convert(pose, pos) ==
    LET r == to_move_goal(pose) IN
    IF r.raises = "none"
    THEN /\ current_goal' = r.goal
         /\ goals_pos' = pos
         /\ acquired' = acquired + 1
         /\ pc' = "send"
         /\ UNCHANGED <<attrs_set, bad_goal_counter, exc, exit_reason, wait_state, submitted>>
    ELSE IF caught_as_no_goal(r.raises) THEN Return("no_goal")
    ELSE Raise(r.raises)

\* Goal acquisition of the preset modes, and the call of get_next in dynamic mode
Acquire ==
    /\ pc = "acquire"
    /\ acquired < MaxAcquire
    /\ CASE route_mode = "inorder" ->
              LET n == next_inorder(poses, goals_pos) IN
              /\ IF n.raises = "none"
                 THEN Convert(n.pose, cycle_next(goals_pos, Len(poses)))
                 ELSE IF caught_as_no_goal(n.raises) THEN Return("no_goal")
                 ELSE Raise(n.raises)
              /\ UNCHANGED sampler_vars
         [] route_mode = "random" ->
              /\ \E n \in next_random(poses) :
                   IF n.raises = "none" THEN Convert(n.pose, goals_pos)
                   ELSE IF caught_as_no_goal(n.raises) THEN Return("no_goal")
                   ELSE Raise(n.raises)
              /\ UNCHANGED sampler_vars
         [] route_mode = "dynamic" ->
              /\ pc' = "get_next"
              /\ iteration' = 0
              /\ rejected' = 0
              /\ draw' = NoDraw
              /\ sample' = Pending
              /\ UNCHANGED <<attrs_set, bad_goal_counter, goals_pos, current_goal, exc,
                             exit_reason, wait_state, acquired, submitted>>
    /\ UNCHANGED <<config_vars, service_vars, noise>>

\* self.goals.get_next() running inside route_forever, then the conversion of
\* what it returns
GetNext ==
    /\ pc = "get_next"
    /\ GetNextStep
    /\ IF sample' = Pending
       THEN UNCHANGED dispatcher_vars
       ELSE Convert(sample', goals_pos)
    /\ UNCHANGED <<config_vars, service_vars, noise>>

\* self.client.send_goal(current_goal): the client tracks the new goal only;
\* the goal it tracked before stays at the service if it is not done
Send ==
    /\ pc = "send"
    /\ cur = "active" => stale < MaxStale
    /\ submitted' = submitted + 1
    /\ stale' = IF cur = "active" THEN stale + 1 ELSE stale
    /\ cur' = "active"
    /\ plan_msg' = "none"
    /\ wait_state' = "waiting"
    /\ pc' = "wait_plan"
    /\ UNCHANGED <<attrs_set, bad_goal_counter, goals_pos, current_goal, exc,
                   exit_reason, acquired, shutdown>>
    /\ UNCHANGED <<config_vars, sampler_vars, noise>>

\* A handler that falls through to the pacing sleep
NoPlan_paced(e, how) ==
    IF caught_as_no_plan(e)
    THEN /\ bad_goal_counter' = count_bad_goal(bad_goal_counter)
         /\ wait_state' = how
         /\ pc' = "sleep"
         /\ UNCHANGED <<attrs_set, goals_pos, current_goal, exc, exit_reason,
                        acquired, submitted>>
    ELSE Raise(e)

\* except rospy.exceptions.ROSException of route_forever
NoPlan(e, how) ==
    IF caught_as_no_plan(e)
    THEN /\ bad_goal_counter' = count_bad_goal(bad_goal_counter)
         /\ wait_state' = how
         /\ pc' = "loop_head"
         /\ UNCHANGED <<attrs_set, goals_pos, current_goal, exc, exit_reason,
                        acquired, submitted>>
    ELSE Raise(e)

\* rospy.wait_for_message(..., timeout=5) returns the message it received
WaitPlanReceived ==
    /\ pc = "wait_plan"
    /\ plan_msg # "none"
    /\ ~shutdown
    /\ pc' = "wait_result"
    /\ UNCHANGED <<attrs_set, bad_goal_counter, goals_pos, current_goal, exc,
                   exit_reason, wait_state, acquired, submitted>>
    /\ UNCHANGED <<config_vars, service_vars, sampler_vars, noise>>

\* rospy.wait_for_message raises ROSException: no message within the timeout
WaitPlanTimeout ==
    /\ pc = "wait_plan"
    /\ plan_msg = "none"
    /\ ~shutdown
    /\ NoPlan("ROSException", "timed_out")
    /\ UNCHANGED <<config_vars, service_vars, sampler_vars, noise>>

\* rospy.wait_for_message raises ROSInterruptException: rospy was shut down
WaitPlanInterrupted ==
    /\ pc = "wait_plan"
    /\ shutdown
    /\ NoPlan("ROSInterruptException", "interrupted")
    /\ UNCHANGED <<config_vars, service_vars, sampler_vars, noise>>

\* A result wait that clears the counter when the goal is done
WaitResult_resets ==
    /\ pc = "wait_result"
    /\ result_wait_over
    /\ wait_state' = IF cur \in {"succeeded", "aborted"} THEN "result" ELSE "interrupted"
    /\ bad_goal_counter' = IF cur = "succeeded" THEN 0 ELSE bad_goal_counter
    /\ pc' = "sleep"
    /\ UNCHANGED <<attrs_set, goals_pos, current_goal, exc, exit_reason, acquired, submitted>>
    /\ UNCHANGED <<config_vars, service_vars, sampler_vars, noise>>

\* self.client.wait_for_result() and the logging of its outcome
WaitResult ==
    /\ pc = "wait_result"
    /\ result_wait_over
    /\ wait_state' = IF cur \in {"succeeded", "aborted"} THEN "result" ELSE "interrupted"
    /\ pc' = "sleep"
    /\ UNCHANGED <<attrs_set, bad_goal_counter, goals_pos, current_goal, exc,
                   exit_reason, acquired, submitted>>
    /\ UNCHANGED <<config_vars, service_vars, sampler_vars, noise>>

\* rate.sleep(): on shutdown it raises ROSInterruptException under simulated
\* time and returns under wall-clock time
Sleep ==
    /\ pc = "sleep"
    /\ \/ /\ pc' = "loop_head"
          /\ UNCHANGED <<attrs_set, bad_goal_counter, goals_pos, current_goal, exc,
                         exit_reason, wait_state, acquired, submitted>>
       \/ /\ shutdown
          /\ NoPlan("ROSInterruptException", wait_state)
    /\ UNCHANGED <<config_vars, service_vars, sampler_vars, noise>>

----------------------------------------------------------------------------
(* Environment: the host process and the move_base action server *)

\* An external shutdown request
Shutdown ==
    /\ ~shutdown
    /\ shutdown' = TRUE
    /\ UNCHANGED <<cur, stale, plan_msg>>
    /\ UNCHANGED <<config_vars, dispatcher_vars, sampler_vars, noise>>

\* The server publishes a global plan, for the tracked goal or for an
\* untracked one; only a subscriber that is waiting receives it
PublishPlan ==
    /\ pc = "wait_plan"
    /\ plan_msg = "none"
    /\ \/ cur = "active" /\ plan_msg' = "current"
       \/ stale > 0 /\ plan_msg' = "stale"
    /\ UNCHANGED <<shutdown, cur, stale>>
    /\ UNCHANGED <<config_vars, dispatcher_vars, sampler_vars, noise>>

\* The server reports a terminal result for the tracked goal
FinishGoal ==
    /\ cur = "active"
    /\ cur' \in {"succeeded", "aborted"}
    /\ UNCHANGED <<shutdown, stale, plan_msg>>
    /\ UNCHANGED <<config_vars, dispatcher_vars, sampler_vars, noise>>

\* An untracked goal reaches a terminal state at the server
FinishStale ==
    /\ stale > 0
    /\ stale' = stale - 1
    /\ UNCHANGED <<shutdown, cur, plan_msg>>
    /\ UNCHANGED <<config_vars, dispatcher_vars, sampler_vars, noise>>

Next ==
    \/ LoopHead
    \/ Acquire
    \/ GetNext
    \/ Send
    \/ WaitPlanReceived
    \/ WaitPlanTimeout
    \/ WaitPlanInterrupted
    \/ WaitResult
    \/ Sleep
    \/ Shutdown
    \/ PublishPlan
    \/ FinishGoal
    \/ FinishStale

Spec == Init /\ [][Next]_vars

----------------------------------------------------------------------------
(* The GoalGenerator on its own: calls of get_next and of check_noise on a   *)
(* grid drawn from the bounded set of grids                                  *)

InitSampler ==
    /\ route_mode = "dynamic"
    /\ poses = <<>>
    /\ grid \in Grids(MaxCells, Metas) \cup FreeGrids(MaxFreeSide, Metas \cup {ScaledMeta})
    /\ attrs_set = TRUE
    /\ bad_goal_counter = 0
    /\ goals_pos = 0
    /\ current_goal = NoGoal
    /\ pc = "sampler"
    /\ exc = "none"
    /\ exit_reason = "none"
    /\ iteration = 0
    /\ rejected = 0
    /\ draw = NoDraw
    /\ sample = NotCalled
    /\ noise = NoNoise
    /\ shutdown = FALSE
    /\ cur = "none"
    /\ stale = 0
    /\ plan_msg = "none"
    /\ wait_state = "none"
    /\ acquired = 0
    /\ submitted = 0

\* A caller enters get_next
SamplerCall ==
    /\ pc = "sampler"
    /\ sample # Pending
    /\ iteration' = 0
    /\ rejected' = 0
    /\ draw' = NoDraw
    /\ sample' = Pending
    /\ noise' = NoNoise
    /\ UNCHANGED <<config_vars, dispatcher_vars, service_vars>>

\* get_next runs
SamplerGetNext ==
    /\ pc = "sampler"
    /\ GetNextStep
    /\ UNCHANGED <<config_vars, dispatcher_vars, service_vars, noise>>

\* A caller that is not inside get_next calls check_noise(x, y) on an
\* in-bounds cell
SamplerCheckNoise ==
    /\ pc = "sampler"
    /\ sample # Pending
    /\ \E x \in 0..(grid.width - 1), y \in 0..(grid.height - 1) :
         noise' = [x |-> x, y |-> y, clean |-> check_noise(grid, x, y)]
    /\ iteration' = 0
    /\ rejected' = 0
    /\ draw' = NoDraw
    /\ sample' = NotCalled
    /\ UNCHANGED <<config_vars, dispatcher_vars, service_vars>>

NextSampler ==
    \/ SamplerCall
    \/ SamplerGetNext
    \/ SamplerCheckNoise

SpecSampler == InitSampler /\ [][NextSampler]_vars

----------------------------------------------------------------------------
(* Properties *)

\* Goals the service holds that have not reached a terminal state
Outstanding == stale + (IF cur = "active" THEN 1 ELSE 0)

\* The neighbourhood window as the documentation describes it: every cell
\* within the half extents, clamped to the grid
ClampedWindow(g, x, y) ==
    {<<cx, cy>> : cx \in Max(0, x - Max(2, g.width \div 50))..Min(g.width - 1, x + Max(2, g.width \div 50)),
                  cy \in Max(0, y - Max(2, g.height \div 50))..Min(g.height - 1, y + Max(2, g.height \div 50))}

WindowIsFree(g, x, y) ==
    \A c \in ClampedWindow(g, x, y) : g.data[c[2] * g.width + c[1] + 1] = 0

ValidConfig ==
    /\ route_mode \in {"inorder", "random", "dynamic"}
    /\ route_mode # "dynamic" => poses # <<>>

TypeOK ==
    /\ route_mode \in ModeParams
    /\ bad_goal_counter \in 0..(MaxBadGoals + 1)
    /\ pc \in {"loop_head", "acquire", "get_next", "send", "wait_plan", "wait_result",
               "sleep", "done", "crashed", "sampler"}
    /\ stale \in 0..MaxStale
    /\ acquired \in 0..MaxAcquire
    /\ submitted \in 0..MaxAcquire

\* C1: once bad_goal_counter is above 10 (11 plan-scan timeouts) the dispatcher
\* only moves from the loop head to its end and submits no further goal, and a
\* stop for the failure budget happens with exactly 11 counted.
C1_BudgetStopsDispatch ==
    [][/\ bad_goal_counter > 10 =>
            /\ pc' \in {"loop_head", "done"}
            /\ submitted' = submitted
            /\ acquired' = acquired
       /\ (exit_reason' = "budget" /\ exit_reason # "budget") => bad_goal_counter = 11]_vars

C1_Witness ==
    /\ pc = "done"
    /\ exit_reason = "budget"
    /\ bad_goal_counter = 11
    /\ submitted = 11
    /\ ~shutdown

\* C2: a call of get_next never makes more than 100 rejected draws (after the
\* 100th it returns None).
C2_GetNextBounded == rejected <= 100

\* C4: a goal is submitted only when the wait on the goal submitted before it
\* is over: its plan wait timed out, or wait_for_result returned with its
\* terminal result (the first goal has no goal before it).
C4_SubmitAfterWaitOver ==
    [][submitted' # submitted =>
          \/ submitted = 0 /\ wait_state = "none"
          \/ submitted > 0 /\ wait_state \in {"timed_out", "result"}]_vars

C4_Witness ==
    /\ submitted = 3
    /\ bad_goal_counter = 1
    /\ pc = "wait_plan"
    /\ ~shutdown

\* C5 (as claimed): the service never holds more than one outstanding goal.
C5_OneOutstanding == Outstanding <= 1

\* C5 (amended): a goal stays outstanding at the service without being the
\* one the dispatcher tracks only when its plan wait timed out, so the service
\* holds at most one outstanding goal more than the timeouts counted.
C5_OutstandingOnlyAbandoned ==
    [][/\ stale' > stale => wait_state = "timed_out"
       /\ Outstanding' <= 1 + bad_goal_counter']_vars

C5_Witness ==
    /\ stale = 1
    /\ cur = "active"
    /\ pc = "wait_plan"
    /\ bad_goal_counter = 1

\* C6: with an invalid mode, or an empty pose list in a preset mode, no goal
\* is submitted and no exception leaves route_forever.
C6_BadConfigEndsQuietly ==
    ~ValidConfig => (submitted = 0 /\ pc # "crashed" /\ exc = "none")

\* A step in which the shutdown takes the iteration in progress out of its
\* try body: the plan wait or the pacing sleep is left through the exception
\* handler, so the steps of the iteration that would follow are not run
AbortedByShutdown ==
    /\ shutdown
    /\ \/ pc = "wait_plan" /\ pc' = "loop_head"
       \/ pc = "sleep" /\ bad_goal_counter' # bad_goal_counter

\* C7: once shutdown is requested the next step from the loop head ends
\* route_forever, no goal is acquired or submitted from there, no interrupt
\* exception leaves route_forever, and the iteration in progress runs to its
\* normal end: no step of it is cut short by the shutdown.
C7_ShutdownAtLoopHead ==
    [][/\ (~shutdown /\ shutdown') => UNCHANGED dispatcher_vars
       /\ (shutdown /\ pc = "loop_head" /\ pc' # pc) =>
            /\ pc' = "done"
            /\ exit_reason' = "shutdown"
            /\ acquired' = acquired
            /\ submitted' = submitted
       /\ exc' \notin {"ROSException", "ROSInterruptException"}
       /\ ~AbortedByShutdown]_vars

\* C8: when get_next has returned a pose, the cell it drew is free and so is
\* every cell of the clamped window around it.
C8_ReturnedCellWindowFree ==
    (pc = "sampler" /\ sample.kind = "pose") =>
        /\ grid.data[draw[2] * grid.width + draw[1] + 1] = 0
        /\ WindowIsFree(grid, draw[1], draw[2])

\* C9: check_noise returns FALSE exactly when some cell of the clamped window
\* around (x, y) is not free.
C9_CheckNoiseIsWindowTest ==
    noise.x >= 0 => (noise.clean <=> WindowIsFree(grid, noise.x, noise.y))

\* C10: in inorder mode the k-th goal acquired (k from 0) is poses[k mod n],
\* whatever happened to the goals before it.
C10_InorderCycles ==
    (route_mode = "inorder" /\ acquired > 0) =>
        current_goal.pose = poses[((acquired - 1) % Len(poses)) + 1]

C10_Witness ==
    /\ route_mode = "inorder"
    /\ Len(poses) = 2
    /\ poses[1] # poses[2]
    /\ acquired = 4
    /\ bad_goal_counter = 2
    /\ wait_state = "result"


\* The entries of the preset pose list
PoseEntries == {poses[i] : i \in 1..Len(poses)}

\* C11: in random mode with a non-empty pose list every goal acquired (and so
\* every goal submitted) carries one of the preset poses, and goal acquisition
\* never fails: no exception leaves route_forever and it never stops for want
\* of a goal.
C11_RandomDrawsPresetPoses ==
    (route_mode = "random" /\ poses # <<>>) =>
        /\ acquired > 0 => current_goal.pose \in PoseEntries
        /\ pc # "crashed"
        /\ exc = "none"
        /\ exit_reason # "no_goal"

C11_Witness ==
    /\ route_mode = "random"
    /\ Len(poses) = 2
    /\ poses[1] # poses[2]
    /\ acquired = 3
    /\ submitted = 3
    /\ current_goal.pose = poses[2]


\* The 5x5 grid with every cell free, origin (0, 0), yaw 0 and resolution 1
IsFreeUnit5x5 ==
    /\ grid.width = 5
    /\ grid.height = 5
    /\ \A i \in 1..25 : grid.data[i] = 0
    /\ grid.x0 = 0
    /\ grid.y0 = 0
    /\ grid.resolution = 1

\* C12: on the free 5x5 unit grid get_next rejects no draw and never returns
\* None, and the pose it returns is at (x, y, 0), with identity orientation,
\* for the cell (x, y) of the grid it drew; with yaw 0 and origin (0, 0)
\* grid_to_world_2d(x, y) is (resolution * x, resolution * y) for every cell,
\* and that is where get_next puts the pose.
C12_FreeGridPoseAtCell ==
    /\ IsFreeUnit5x5 =>
          /\ sample # None
          /\ rejected = 0
          /\ sample.kind = "pose" =>
                /\ draw[1] \in 0..4
                /\ draw[2] \in 0..4
                /\ sample.position = <<draw[1], draw[2], 0>>
                /\ sample.orientation = <<0, 0, 0, 1>>
    /\ (pc = "sampler" /\ grid.x0 = 0 /\ grid.y0 = 0) =>
          /\ \A x \in 0..(grid.width - 1), y \in 0..(grid.height - 1) :
                grid_to_world_2d(grid, x, y) = <<grid.resolution * x, grid.resolution * y>>
          /\ sample.kind = "pose" =>
                sample.position = <<grid.resolution * draw[1], grid.resolution * draw[2], 0>>

C12_Witness ==
    /\ IsFreeUnit5x5
    /\ sample.kind = "pose"
    /\ draw = <<3, 1>>
    /\ sample.position = <<3, 1, 0>>


\* The step in which the bounded plan wait of the iteration times out
PlanWaitTimesOut ==
    /\ pc = "wait_plan"
    /\ ~shutdown
    /\ plan_msg = "none"
    /\ pc' = "loop_head"

\* C13: bad_goal_counter is incremented by a step if and only if that step is
\* the time-out of the iteration's plan wait; a terminal result, the pacing
\* sleep and a shutdown request never increment it.
C13_CountsOnlyPlanTimeouts ==
    [][(bad_goal_counter' # bad_goal_counter) <=> PlanWaitTimesOut]_vars


\* C14: the step in which the plan wait times out leaves the abandoned goal
\* as it is at the service (no cancel) and takes the dispatcher to the head of
\* the loop; from there until the next goal is submitted the dispatcher only
\* checks the budget and acquires the next goal: it is never in the result
\* wait or in the pacing sleep.
C14_TimeoutSkipsToNextIteration ==
    /\ [](wait_state = "timed_out" => pc \in {"loop_head", "acquire", "get_next", "send", "done"})
    /\ [][PlanWaitTimesOut =>
             /\ wait_state' = "timed_out"
             /\ cur' = cur
             /\ stale' = stale
             /\ submitted' = submitted]_vars
    /\ [][(wait_state = "timed_out" /\ pc = "loop_head" /\ pc' # pc) =>
             pc' = (IF budget_exceeded(bad_goal_counter) \/ shutdown THEN "done" ELSE "acquire")]_vars

C14_Witness ==
    /\ wait_state = "timed_out"
    /\ pc = "send"
    /\ cur = "active"
    /\ bad_goal_counter = 1
    /\ submitted = 1
    /\ acquired = 2


\* C15: bad_goal_counter is 0 when route_forever starts and no step of the run
\* ever makes it smaller: a goal that succeeds or fails, the pacing sleep and
\* the end of the run leave it where it is.
C15_CounterNeverDecreases ==
    /\ (attrs_set => bad_goal_counter = 0)
    /\ [][bad_goal_counter' >= bad_goal_counter]_vars

C15_Witness ==
    /\ bad_goal_counter = 2
    /\ wait_state = "result"
    /\ cur = "succeeded"
    /\ pc = "sleep"


\* C16: every cell a call of check_noise on an in-bounds cell goes over lies
\* inside the grid, and the index ravel_index gives for it is an index of the
\* data, in the row and column of that cell (the window is cut at the border
\* and does not wrap into another row).
C16_WindowInsideGrid ==
    noise # NoNoise =>
        \A c \in scanned_cells(grid, noise.x, noise.y) :
            /\ 0 <= c[1] /\ c[1] < grid.width
            /\ 0 <= c[2] /\ c[2] < grid.height
            /\ ravel_index(grid, c[1], c[2]) \in 0..(grid.width * grid.height - 1)
            /\ ravel_index(grid, c[1], c[2]) \div grid.width = c[2]
            /\ ravel_index(grid, c[1], c[2]) % grid.width = c[1]

\* check_noise ran on a corner cell of a 3x4 grid, smaller than the 5x5 window,
\* and went over the cells the border leaves of it
C16_Witness ==
    /\ grid.width = 3
    /\ grid.height = 4
    /\ noise # NoNoise
    /\ noise.x = 0
    /\ noise.y = 3
    /\ scanned_cells(grid, noise.x, noise.y) = {<<0, 1>>, <<0, 2>>, <<1, 1>>, <<1, 2>>}


\* The cells of the grid
GridCells == (0..(grid.width - 1)) \X (0..(grid.height - 1))

\* C17: on the cells of the grid ravel_index is y * width + x, no two cells
\* get the same index, and the indices of the cells are exactly
\* 0 .. width * height - 1.
C17_RavelIndexBijection ==
    /\ \A c \in GridCells : ravel_index(grid, c[1], c[2]) = c[2] * grid.width + c[1]
    /\ \A c, d \in GridCells :
          ravel_index(grid, c[1], c[2]) = ravel_index(grid, d[1], d[2]) => c = d
    /\ {ravel_index(grid, c[1], c[2]) : c \in GridCells} = 0..(grid.width * grid.height - 1)

\* get_next looked up the last cell of a 2x3 grid through ravel_index
C17_Witness ==
    /\ grid.width = 2
    /\ grid.height = 3
    /\ sample.kind = "pose"
    /\ draw = <<1, 2>>
    /\ ravel_index(grid, draw[1], draw[2]) = 5


\* C18: in a run whose RouteManager was fully initialised bad_goal_counter is
\* always between 0 and 11, and a goal is submitted only when it is at most 10.
C18_CounterWithinBudget ==
    /\ [](attrs_set => bad_goal_counter \in 0..(MaxBadGoals + 1))
    /\ [][(attrs_set /\ submitted' # submitted) => bad_goal_counter <= MaxBadGoals]_vars

\* The eleventh goal is submitted with ten bad goals counted
C18_Witness ==
    /\ attrs_set
    /\ bad_goal_counter = 10
    /\ submitted = 11
    /\ pc = "wait_plan"


\* C19: when the dispatcher has passed the progress check of an iteration and
\* is in the result wait, the plan notification it received was produced for
\* the goal it submitted in that iteration, never for an abandoned one.
C19_PlanIsForCurrentGoal ==
    pc = "wait_result" => plan_msg = "current"

====
